---- MODULE Spec2Model ----
(***************************************************************************)
(* Model of graph/src/data/store/scalar.rs: the BigDecimal and BigInt      *)
(* wrappers, their conversions, arithmetic and stable-hash feeds.          *)
(*                                                                         *)
(* A bigdecimal::BigDecimal is the record [int_val, scale] with value      *)
(* int_val * 10^(-scale).  A num_bigint::BigInt is a TLA+ integer where    *)
(* decimal arithmetic is done on it (mantissas) and the record             *)
(* [sign, mag] with mag its little-endian magnitude bytes where the        *)
(* byte-level conversions are modelled.  Text is a sequence of one         *)
(* character strings.  The i64 scale stays far from the i64 limits: the    *)
(* equality test in normalized() materialises 10^|scale|, so a scale near  *)
(* the limits never yields a value.                                        *)
(***************************************************************************)
EXTENDS Integers, Sequences, FiniteSets, TLC

VARIABLES pc, x, y, op, arg, res, big, bytes, word, feeds

vars == <<pc, x, y, op, arg, res, big, bytes, word, feeds>>

(* ------------------------------ bounds --------------------------------- *)

\* largest |mantissa| handed to a constructor of the arithmetic machine
MaxDigits == 10
\* largest |exponent| handed to a constructor
MaxExp == 1
\* longest text handed to from_str
MaxStrLen == 2
\* digits of precision of a non-terminating quotient (the library uses 100)
DivPrecision == 3
\* largest |mantissa| and |scale| of an operand of the arithmetic machine
MaxOperand == 5
MaxOperandScale == 1
\* largest |exponent| handed to BigDecimal::new when it is observed
MaxDecExp == 5
\* longest byte slice handed to a BigInt constructor
MaxBytes == 34
\* largest |digits| and |exponent| of an operand of a division
MaxDivDigits == 6
MaxDivExp == 1
\* the integers, slices and decimals that are hashed
MaxHashInt == 20
MaxHashBytes == 2
MaxHashDigits == 10
MaxHashExp == 1

\* longest text handed to Bytes::from_str
MaxHexLen == 6
\* longest byte slice made into a Bytes
MaxBlobLen == 2

(* ------------------------------ helpers -------------------------------- *)

Abs(n) == IF n < 0 THEN -n ELSE n

Max(a, b) == IF a >= b THEN a ELSE b

RECURSIVE ten_to_the(_)
ten_to_the(pow) == IF pow = 0 THEN 1 ELSE 10 * ten_to_the(pow - 1)

None == [none |-> TRUE]

(* ----------------------- bigdecimal::BigDecimal ------------------------ *)

\* bigdecimal::BigDecimal::new(digits, scale)
BigDec(int_val, scale) == [int_val |-> int_val, scale |-> scale]

\* PartialEq of the wrapped decimal: the operands are brought to one scale
DecEq(a, b) ==
    IF a.scale > b.scale
    THEN a.int_val = b.int_val * ten_to_the(a.scale - b.scale)
    ELSE IF a.scale < b.scale
    THEN a.int_val * ten_to_the(b.scale - a.scale) = b.int_val
    ELSE a.int_val = b.int_val

\* BigDecimal::zero()
zero == BigDec(0, 0)

\* num_bigint to_radix_be(10): the decimal digits of |n|, most significant first
RECURSIVE to_radix_be(_)
to_radix_be(n) ==
    IF Abs(n) < 10 THEN <<Abs(n)>>
    ELSE Append(to_radix_be(Abs(n) \div 10), Abs(n) % 10)

\* num_bigint from_radix_be(sign, digits, 10), sign given as -1 or 1
RECURSIVE from_radix_be(_, _)
from_radix_be(sign, digits) ==
    IF digits = <<>> THEN 0
    ELSE 10 * from_radix_be(sign, SubSeq(digits, 1, Len(digits) - 1))
         + sign * digits[Len(digits)]

\* digits.iter().rev().take_while(|i| **i == 0).count()
RECURSIVE trailing_count(_)
trailing_count(digits) ==
    IF digits = <<>> \/ digits[Len(digits)] # 0 THEN 0
    ELSE 1 + trailing_count(SubSeq(digits, 1, Len(digits) - 1))

\* a slip: only one trailing zero digit is stripped
normalized_one_digit(d) ==
    IF DecEq(d, zero) THEN zero
    ELSE IF d.int_val % 10 = 0 THEN BigDec(d.int_val \div 10, d.scale - 1)
    ELSE d

\* BigDecimal::normalized
normalized(d) ==
    IF DecEq(d, zero) THEN zero
    ELSE LET digits == to_radix_be(d.int_val)
             n      == trailing_count(digits)
             kept   == SubSeq(digits, 1, Len(digits) - n)
             sign   == IF d.int_val < 0 THEN -1 ELSE 1
         IN  BigDec(from_radix_be(sign, kept), d.scale - n)

\* a slip: the wrapped decimal is stored as given
from_unnormalized(big_decimal) == big_decimal

\* impl From<bigdecimal::BigDecimal> for BigDecimal
From(big_decimal) == normalized(big_decimal)

\* BigDecimal::new
new(digits, exp) == From(BigDec(digits, -exp))

\* a slip: the scale is negated on the way out
as_bigint_and_exponent_negated(d) == <<d.int_val, -d.scale>>

\* BigDecimal::as_bigint_and_exponent
as_bigint_and_exponent(d) == <<d.int_val, d.scale>>

\* impl From<i32 / i64 / u64> for BigDecimal
from_int(n) == From(BigDec(n, 0))

(* ------------------------------ arithmetic ----------------------------- *)

\* bigdecimal take_and_scale: the same value at a larger scale
take_and_scale(d, new_scale) ==
    IF new_scale > d.scale
    THEN BigDec(d.int_val * ten_to_the(new_scale - d.scale), new_scale)
    ELSE d

\* bigdecimal Add
dec_add(a, b) ==
    LET s == Max(a.scale, b.scale)
    IN  BigDec(take_and_scale(a, s).int_val + take_and_scale(b, s).int_val, s)

\* bigdecimal Sub
dec_sub(a, b) ==
    LET s == Max(a.scale, b.scale)
    IN  BigDec(take_and_scale(a, s).int_val - take_and_scale(b, s).int_val, s)

\* bigdecimal Mul
dec_mul(a, b) == BigDec(a.int_val * b.int_val, a.scale + b.scale)

\* impl Add for BigDecimal
add(self, other) == From(dec_add(self, other))

\* impl Sub for BigDecimal
sub(self, other) == From(dec_sub(self, other))

\* impl Mul for BigDecimal
mul(self, other) == From(dec_mul(self, other))

\* bigdecimal impl_division: the numerator is shifted up to the denominator
RECURSIVE shift_up(_, _, _)
shift_up(num, den, scale) ==
    IF num < den THEN shift_up(num * 10, den, scale + 1) ELSE <<num, scale>>

\* bigdecimal get_rounding_term of the next quotient digit
get_rounding_term(num) == IF num >= 5 THEN 1 ELSE 0

\* bigdecimal impl_division: one more quotient digit per turn, up to the precision
RECURSIVE div_loop(_, _, _, _, _, _)
div_loop(quotient, remainder, den, precision, scale, max_precision) ==
    IF remainder # 0 /\ precision < max_precision
    THEN div_loop(quotient * 10 + (remainder \div den), (remainder % den) * 10,
                  den, precision + 1, scale + 1, max_precision)
    ELSE IF remainder # 0
    THEN BigDec(quotient + get_rounding_term(remainder \div den), scale)
    ELSE BigDec(quotient, scale)

\* bigdecimal impl_division, both operands positive
impl_division_pos(num0, den, scale0, max_precision) ==
    LET s         == shift_up(num0, den, scale0)
        num       == s[1]
        scale     == s[2]
        quotient  == num \div den
        remainder == num % den
    IN  IF remainder = 0 THEN BigDec(quotient, scale)
        ELSE div_loop(quotient, remainder * 10, den,
                      Len(to_radix_be(quotient)), scale, max_precision)

\* bigdecimal impl_division: the sign is taken out first
impl_division(num, den, scale, max_precision) ==
    IF num = 0 THEN BigDec(0, 0)
    ELSE LET r == impl_division_pos(Abs(num), Abs(den), scale, max_precision)
         IN  IF (num < 0) = (den < 0) THEN r ELSE BigDec(-r.int_val, r.scale)

\* bigdecimal Div, the divisor not zero
dec_div(a, b) ==
    IF a.int_val = 0 \/ DecEq(b, BigDec(1, 0)) THEN a
    ELSE IF a.int_val = b.int_val THEN BigDec(1, a.scale - b.scale)
    ELSE impl_division(a.int_val, b.int_val, a.scale - b.scale, DivPrecision)

Ok(v) == [ok |-> TRUE, val |-> v]

Panic == [ok |-> FALSE, err |-> "panic"]

\* impl Div for BigDecimal
div(self, other) ==
    IF DecEq(other, from_int(0)) THEN Panic
    ELSE Ok(From(dec_div(self, other)))

(* --------------------------------- text -------------------------------- *)

DigitChars == <<"0", "1", "2", "3", "4", "5", "6", "7", "8", "9">>

IsDigit(c) == \E i \in 1..10 : DigitChars[i] = c

DigitVal(c) == (CHOOSE i \in 1..10 : DigitChars[i] = c) - 1

\* num_bigint to_str_radix(10) of a magnitude
to_str_radix(n) == [i \in 1..Len(to_radix_be(n)) |-> DigitChars[to_radix_be(n)[i] + 1]]

\* "0".repeat(n)
repeat_zero(n) == [i \in 1..n |-> "0"]

\* a slip: the zeros between the point and the digits are left out
to_string_unpadded(d) ==
    LET abs_int == to_str_radix(d.int_val)
        len     == Len(abs_int)
        parts   ==
            IF d.scale >= len
            THEN <<<<"0">>, abs_int>>
            ELSE LET location == len - d.scale
                 IN  IF location > len
                     THEN <<abs_int \o repeat_zero(location - len), <<>>>>
                     ELSE <<SubSeq(abs_int, 1, location), SubSeq(abs_int, location + 1, len)>>
        complete == IF parts[2] # <<>> THEN parts[1] \o <<".">> \o parts[2] ELSE parts[1]
    IN  IF d.int_val < 0 THEN <<"-">> \o complete ELSE complete

\* impl Display for BigDecimal: the wrapped decimal's plain notation
to_string(d) ==
    LET abs_int == to_str_radix(d.int_val)
        len     == Len(abs_int)
        parts   ==
            IF d.scale >= len
            THEN <<<<"0">>, repeat_zero(d.scale - len) \o abs_int>>
            ELSE LET location == len - d.scale
                 IN  IF location > len
                     THEN <<abs_int \o repeat_zero(location - len), <<>>>>
                     ELSE <<SubSeq(abs_int, 1, location), SubSeq(abs_int, location + 1, len)>>
        complete == IF parts[2] # <<>> THEN parts[1] \o <<".">> \o parts[2] ELSE parts[1]
    IN  IF d.int_val < 0 THEN <<"-">> \o complete ELSE complete

\* str::find of one of the characters: the first position, 0 when there is none
Find(s, chars) ==
    IF \E i \in 1..Len(s) : s[i] \in chars
    THEN CHOOSE i \in 1..Len(s) : s[i] \in chars /\ \A j \in 1..(i - 1) : s[j] \notin chars
    ELSE 0

Err == [ok |-> FALSE, err |-> "parse"]

\* the value of a string of digits
RECURSIVE digits_value(_)
digits_value(s) ==
    IF s = <<>> THEN 0
    ELSE 10 * digits_value(SubSeq(s, 1, Len(s) - 1)) + DigitVal(s[Len(s)])

\* BigUint::from_str_radix: digits only, at least one
parse_biguint(s) ==
    IF s # <<>> /\ \A i \in 1..Len(s) : IsDigit(s[i]) THEN Ok(digits_value(s)) ELSE Err

\* BigInt::from_str_radix: an optional leading minus
parse_bigint(s) ==
    IF s # <<>> /\ s[1] = "-"
    THEN LET bu == parse_biguint(Tail(s)) IN IF bu.ok THEN Ok(-bu.val) ELSE Err
    ELSE parse_biguint(s)

\* i64::from_str: an optional sign
parse_i64(s) ==
    IF s # <<>> /\ s[1] \in {"-", "+"}
    THEN LET bu == parse_biguint(Tail(s))
         IN  IF bu.ok THEN Ok(IF s[1] = "-" THEN -bu.val ELSE bu.val) ELSE Err
    ELSE parse_biguint(s)

\* bigdecimal from_str_radix(s, 10)
dec_from_str(s) ==
    LET loc       == Find(s, {"e", "E"})
        base_part == IF loc = 0 THEN s ELSE SubSeq(s, 1, loc - 1)
        exp_text  == IF loc = 0 THEN <<>> ELSE SubSeq(s, loc + 1, Len(s))
        exp_value == IF loc = 0 THEN Ok(0)
                     ELSE IF exp_text # <<>> /\ exp_text[1] = "+"
                     THEN parse_i64(Tail(exp_text))
                     ELSE parse_i64(exp_text)
        point     == Find(base_part, {"."})
        lead      == IF point = 0 THEN base_part ELSE SubSeq(base_part, 1, point - 1)
        trail     == IF point = 0 THEN <<>> ELSE SubSeq(base_part, point + 1, Len(base_part))
        big_int   == parse_bigint(lead \o trail)
    IN  IF ~exp_value.ok \/ base_part = <<>> \/ ~big_int.ok THEN Err
        ELSE Ok(BigDec(big_int.val, Len(trail) - exp_value.val))

\* impl FromStr for BigDecimal
from_str(s) ==
    LET parsed == dec_from_str(s)
    IN  IF parsed.ok THEN Ok(From(parsed.val)) ELSE Err

(* ------------------- the arithmetic machine (Spec) --------------------- *)
(* Two BigDecimal registers.  A constructor fills the free register y, an  *)
(* operator consumes both registers (the operands are moved) and leaves    *)
(* its result in x, Clone and Swap move values between them.  A panic ends *)
(* the run.                                                                *)

Alphabet == {"-", ".", "0", "1", "e"}

RECURSIVE Texts(_)
Texts(n) ==
    IF n = 0 THEN {<<>>}
    ELSE Texts(n - 1) \cup {Append(s, c) : s \in Texts(n - 1), c \in Alphabet}

Digits == -MaxDigits..MaxDigits

Exps == -MaxExp..MaxExp

\* operands small enough for the operators' intermediate values
InArith(d) ==
    /\ d # None
    /\ Abs(d.int_val) <= MaxOperand
    /\ Abs(d.scale) <= MaxOperandScale

idle == <<arg, res, big, bytes, word, feeds>>

Init ==
    /\ pc = "run"
    /\ x = zero
    /\ y = None
    /\ op = "zero"
    /\ arg = None /\ res = None /\ big = None
    /\ bytes = None /\ word = None /\ feeds = None

New ==
    \E digits \in Digits, exp \in Exps :
        /\ pc = "run" /\ y = None
        /\ y' = new(digits, exp)
        /\ op' = "new"
        /\ UNCHANGED <<pc, x, idle>>

Zero ==
    /\ pc = "run" /\ y = None
    /\ y' = zero
    /\ op' = "zero"
    /\ UNCHANGED <<pc, x, idle>>

FromDecimal ==
    \E int_val \in Digits, scale \in Exps :
        /\ pc = "run" /\ y = None
        /\ y' = From(BigDec(int_val, scale))
        /\ op' = "from"
        /\ UNCHANGED <<pc, x, idle>>

FromInt ==
    \E n \in Digits :
        /\ pc = "run" /\ y = None
        /\ y' = from_int(n)
        /\ op' = "from_int"
        /\ UNCHANGED <<pc, x, idle>>

FromStr ==
    \E s \in Texts(MaxStrLen) :
        /\ pc = "run" /\ y = None
        /\ y' = IF from_str(s).ok THEN from_str(s).val ELSE None
        /\ op' = IF from_str(s).ok THEN "from_str" ELSE "from_str_err"
        /\ UNCHANGED <<pc, x, idle>>

Add ==
    /\ pc = "run" /\ InArith(x) /\ InArith(y)
    /\ x' = add(x, y)
    /\ y' = None
    /\ op' = "add"
    /\ UNCHANGED <<pc, idle>>

Sub ==
    /\ pc = "run" /\ InArith(x) /\ InArith(y)
    /\ x' = sub(x, y)
    /\ y' = None
    /\ op' = "sub"
    /\ UNCHANGED <<pc, idle>>

Mul ==
    /\ pc = "run" /\ InArith(x) /\ InArith(y)
    /\ x' = mul(x, y)
    /\ y' = None
    /\ op' = "mul"
    /\ UNCHANGED <<pc, idle>>

Div ==
    /\ pc = "run" /\ InArith(x) /\ InArith(y)
    /\ x' = IF div(x, y).ok THEN div(x, y).val ELSE None
    /\ y' = None
    /\ pc' = IF div(x, y).ok THEN "run" ELSE "panic"
    /\ op' = "div"
    /\ UNCHANGED idle

Swap ==
    /\ pc = "run" /\ y # None
    /\ x' = y /\ y' = x
    /\ op' = "swap"
    /\ UNCHANGED <<pc, idle>>

Clone ==
    /\ pc = "run" /\ y = None
    /\ y' = x
    /\ op' = "clone"
    /\ UNCHANGED <<pc, x, idle>>

Next ==
    \/ New \/ Zero \/ FromDecimal \/ FromInt \/ FromStr
    \/ Add \/ Sub \/ Mul \/ Div \/ Swap \/ Clone

Spec == Init /\ [][Next]_vars

\* the normalized form: no trailing zero digit, and one zero
IsNormalized(d) ==
    \/ d.int_val # 0 /\ d.int_val % 10 # 0
    \/ d.int_val = 0 /\ d.scale = 0

\* C1: every BigDecimal the constructors and add, sub, mul and div hand out is
\* normalized: its mantissa is not zero and not divisible by 10, or it is the
\* zero with mantissa 0 and exponent 0.
C1_AlwaysNormalized ==
    /\ x # None => IsNormalized(x)
    /\ y # None => IsNormalized(y)

\* a product with trailing zero digits, 0.2 * 0.5, came out as 0.1
C1_Witness == op = "mul" /\ x = BigDec(1, 1) /\ dec_mul(BigDec(2, 1), BigDec(5, 1)) = BigDec(10, 2)

(* ------------- construction and its observers (SpecDec) ---------------- *)
(* One (digits, exp) pair is drawn; it is handed to BigDecimal::new, or    *)
(* wrapped as it is (as the module's own tests do), and the result is      *)
(* decomposed, printed or normalized.                                      *)

\* the pairs of test_normalize whose digits lie outside Digits
TestPairs == {<<132400, 4>>, <<1900000, -3>>}

DecExps == -MaxDecExp..MaxDecExp

NewInputs == (Digits \X DecExps) \cup TestPairs

InitDec ==
    /\ pc = "start"
    /\ arg \in {[digits |-> p[1], exp |-> p[2]] : p \in NewInputs}
    /\ x = None /\ y = None /\ res = None /\ op = "none"
    /\ big = None /\ bytes = None /\ word = None /\ feeds = None

decIdle == <<y, op, big, bytes, word, feeds>>

\* BigDecimal::new(digits, exp)
CallNew ==
    /\ pc = "start"
    /\ x' = new(arg.digits, arg.exp)
    /\ pc' = "built"
    /\ UNCHANGED <<arg, res, decIdle>>

\* BigDecimal(bigdecimal::BigDecimal::new(digits, -exp)), not normalized
Wrap ==
    /\ pc = "start"
    /\ x' = BigDec(arg.digits, -arg.exp)
    /\ pc' = "raw"
    /\ UNCHANGED <<arg, res, decIdle>>

\* d.normalized(); res keeps the value it was called on
CallNormalized ==
    /\ pc \in {"raw", "built", "normalized"}
    /\ res' = x
    /\ x' = normalized(x)
    /\ pc' = IF pc = "raw" THEN "normalized" ELSE "renormalized"
    /\ UNCHANGED <<arg, decIdle>>

\* d.as_bigint_and_exponent()
CallAsBigintAndExponent ==
    /\ pc = "built"
    /\ res' = as_bigint_and_exponent(x)
    /\ pc' = "decomposed"
    /\ UNCHANGED <<arg, x, decIdle>>

\* d.to_string()
CallToString ==
    /\ pc = "built"
    /\ res' = to_string(x)
    /\ pc' = "shown"
    /\ UNCHANGED <<arg, x, decIdle>>

NextDec ==
    \/ CallNew \/ Wrap \/ CallNormalized \/ CallAsBigintAndExponent \/ CallToString

SpecDec == InitDec /\ [][NextDec]_vars

Min(a, b) == IF a <= b THEN a ELSE b

\* m1 * 10^e1 = m2 * 10^e2
SameValue(m1, e1, m2, e2) ==
    m1 * ten_to_the(e1 - Min(e1, e2)) = m2 * ten_to_the(e2 - Min(e1, e2))

\* plain decimal notation: an optional minus, digits, and at most one point with
\* digits on both sides
IsPlainDecimal(s) ==
    LET body  == IF s # <<>> /\ s[1] = "-" THEN Tail(s) ELSE s
        point == Find(body, {"."})
    IN  /\ body # <<>>
        /\ \A i \in 1..Len(body) : i # point => IsDigit(body[i])
        /\ point # 1 /\ point # Len(body)

\* the digits of a plain decimal, the point left out, and how many follow the point
PlainDigits(s) ==
    LET body  == IF s[1] = "-" THEN Tail(s) ELSE s
        point == Find(body, {"."})
        all   == IF point = 0 THEN body
                 ELSE SubSeq(body, 1, point - 1) \o SubSeq(body, point + 1, Len(body))
    IN  [mantissa |-> IF s[1] = "-" THEN -digits_value(all) ELSE digits_value(all),
         places   |-> IF point = 0 THEN 0 ELSE Len(body) - point]

\* C2: new(m, e) denotes m * 10^e, normalizing keeps the value, and the text is
\* the plain decimal notation of m * 10^e: new(10, -2) prints "0.1",
\* new(132400, 4) prints "1324000000", new(1900000, -3) prints "1900" and
\* new(0, e) prints "0".
C2_ValueAndText ==
    /\ pc \in {"built", "normalized", "renormalized"} =>
          SameValue(x.int_val, -x.scale, arg.digits, arg.exp)
    /\ pc = "shown" =>
          /\ IsPlainDecimal(res)
          /\ SameValue(PlainDigits(res).mantissa, -PlainDigits(res).places,
                       arg.digits, arg.exp)
          /\ (arg.digits = 10 /\ arg.exp = -2) => res = <<"0", ".", "1">>
          /\ (arg.digits = 132400 /\ arg.exp = 4) =>
                res = <<"1", "3", "2", "4", "0", "0", "0", "0", "0", "0">>
          /\ (arg.digits = 1900000 /\ arg.exp = -3) => res = <<"1", "9", "0", "0">>
          /\ arg.digits = 0 => res = <<"0">>

\* new(132400, 4) was printed
C2_Witness ==
    /\ pc = "shown" /\ arg.digits = 132400 /\ arg.exp = 4
    /\ x = BigDec(1324, -6) /\ Len(res) = 10

C10_NormalizedIdempotent == pc = "renormalized" => x = res

\* 10 * 10^1, wrapped as it is, was normalized twice
C10_Witness ==
    /\ pc = "renormalized" /\ arg.digits = 10 /\ arg.exp = 1
    /\ res = BigDec(1, -2)
    /\ normalized(BigDec(arg.digits, -arg.exp)) = res
    /\ BigDec(arg.digits, -arg.exp) # res

(* ------------------------- num_bigint::BigInt -------------------------- *)
(* The byte-level view: [sign, data], data the magnitude's bytes, least    *)
(* significant first, without leading zero bytes (empty for zero).         *)

\* bytes in a u64 (the test at line 224) and in a U256 (the arrays at line 276)
U64Bytes == 8
U256Bytes == 32

\* the slice without its most significant zero bytes
RECURSIVE trim_zeros(_)
trim_zeros(b) ==
    IF b = <<>> \/ b[Len(b)] # 0 THEN b
    ELSE trim_zeros(SubSeq(b, 1, Len(b) - 1))

\* BigInt::from_biguint: zero has no sign
from_biguint(sign, data) ==
    IF data = <<>> \/ sign = "NoSign" THEN [sign |-> "NoSign", data |-> <<>>]
    ELSE [sign |-> sign, data |-> data]

\* num_bigint::BigInt::from_bytes_le(sign, bytes)
from_bytes_le(sign, b) == from_biguint(sign, trim_zeros(b))

\* num_bigint twos_complement_le: every byte is inverted, one is added
RECURSIVE twos_complement_from(_, _, _)
twos_complement_from(b, i, carry) ==
    IF i > Len(b) THEN b
    ELSE LET inv == 255 - b[i]
             d   == IF carry THEN (inv + 1) % 256 ELSE inv
         IN  twos_complement_from([b EXCEPT ![i] = d], i + 1, carry /\ d = 0)

twos_complement_le(b) == twos_complement_from(b, 1, TRUE)

\* num_bigint::BigInt::from_signed_bytes_le
bigint_from_signed_bytes_le(b) ==
    IF b = <<>> THEN from_biguint("NoSign", <<>>)
    ELSE IF b[Len(b)] > 127
    THEN from_bytes_le("Minus", twos_complement_le(b))
    ELSE from_bytes_le("Plus", b)

\* BigInt::to_bytes_le: the sign and the magnitude, zero as one zero byte
to_bytes_le(v) == <<v.sign, IF v.data = <<>> THEN <<0>> ELSE v.data>>

\* BigInt::to_signed_bytes_le: two's complement, one more byte when the top bit
\* is taken by the magnitude
to_signed_bytes_le(v) ==
    LET b    == to_bytes_le(v)[2]
        last == b[Len(b)]
        rest == \A i \in 1..(Len(b) - 1) : b[i] = 0
        ext  == IF last > 127 /\ ~(last = 128 /\ rest /\ v.sign = "Minus")
                THEN Append(b, 0) ELSE b
    IN  IF v.sign = "Minus" THEN twos_complement_le(ext) ELSE ext

\* BigInt::from_unsigned_bytes_le
from_unsigned_bytes_le(b) == from_bytes_le("Plus", b)

\* BigInt::from_signed_bytes_le
from_signed_bytes_le(b) == bigint_from_signed_bytes_le(b)

\* the slice copied into the low end of an array of n bytes of fill
copy_into(n, fill, b) == [i \in 1..n |-> IF i <= Len(b) THEN b[i] ELSE fill]

\* impl From<u64> for BigInt, the u64 given by its 8 bytes, and From<U64>
from_u64(n) == from_bytes_le("Plus", n)

\* a slip: eight bytes already count as too large
try_from_seven_bytes(value) ==
    LET b == to_bytes_le(value)
    IN  IF b[1] = "Minus" THEN [ok |-> FALSE, err |-> "Negative"]
        ELSE IF Len(b[2]) >= U64Bytes THEN [ok |-> FALSE, err |-> "Overflow"]
        ELSE Ok(copy_into(U64Bytes, 0, b[2]))

\* the loop of try_from: byte i is shifted to its place and or-ed into n
RECURSIVE shift_or(_, _, _)
shift_or(n, b, i) ==
    IF i > Len(b) THEN n
    ELSE shift_or([n EXCEPT ![i] = b[i]], b, i + 1)

\* impl TryFrom<&BigInt> for u64
try_from(value) ==
    LET b == to_bytes_le(value)
    IN  IF b[1] = "Minus" THEN [ok |-> FALSE, err |-> "Negative"]
        ELSE IF Len(b[2]) > U64Bytes THEN [ok |-> FALSE, err |-> "Overflow"]
        ELSE Ok(shift_or(copy_into(U64Bytes, 0, <<>>), b[2], 1))

\* U256::to_little_endian: the 32 bytes of the word
to_little_endian(n) == n

\* U256::from_little_endian: a slice longer than the word is refused
from_little_endian(slice) ==
    IF Len(slice) > U256Bytes THEN Panic
    ELSE Ok(copy_into(U256Bytes, 0, slice))

\* BigInt::from_unsigned_u256
from_unsigned_u256(n) == from_unsigned_bytes_le(to_little_endian(n))

\* BigInt::from_signed_u256
from_signed_u256(n) == from_signed_bytes_le(to_little_endian(n))

\* a slip: the filler bytes of a negative value are zero
to_signed_u256_zero_filled(v) ==
    LET b == to_signed_bytes_le(v)
    IN  IF v.sign = "Minus"
        THEN IF Len(b) <= U256Bytes
             THEN from_little_endian(copy_into(U256Bytes, 0, b))
             ELSE Panic
        ELSE from_little_endian(b)

\* a slip: the assertion lets one byte too many through
to_signed_u256_loose(v) ==
    LET b == to_signed_bytes_le(v)
    IN  IF v.sign = "Minus"
        THEN IF Len(b) <= U256Bytes + 1
             THEN Ok(copy_into(U256Bytes, 255, b))
             ELSE Panic
        ELSE from_little_endian(b)

\* BigInt::to_signed_u256
to_signed_u256(v) ==
    LET b == to_signed_bytes_le(v)
    IN  IF v.sign = "Minus"
        THEN IF Len(b) <= U256Bytes
             THEN from_little_endian(copy_into(U256Bytes, 255, b))
             ELSE Panic
        ELSE from_little_endian(b)

\* BigInt::to_unsigned_u256
to_unsigned_u256(v) ==
    LET b == to_bytes_le(v)
    IN  IF b[1] \in {"NoSign", "Plus"} THEN from_little_endian(b[2]) ELSE Panic

(* ------------------ fixed-width conversions (SpecInt) ------------------ *)
(* A byte slice is drawn and made a BigInt, as a magnitude, as two's       *)
(* complement or, when it has eight bytes, as a U64; the BigInt is then    *)
(* narrowed to u64 or projected to a U256 and read back.                   *)

ByteVals == {0, 1, 127, 128, 255}

\* len bytes: the least significant low, the most significant top, fill between
Pattern(len, low, fill, top) ==
    [i \in 1..len |-> IF i = len THEN top ELSE IF i = 1 THEN low ELSE fill]

ByteInputs ==
    {Pattern(len, low, fill, top) :
        len \in 0..MaxBytes, low \in ByteVals, fill \in ByteVals, top \in ByteVals}

InitInt ==
    /\ pc = "start"
    /\ bytes \in ByteInputs
    /\ big = None /\ word = None /\ res = None /\ op = "none"
    /\ x = None /\ y = None /\ arg = None /\ feeds = None

intIdle == <<x, y, arg, feeds>>

CallFromUnsignedBytesLe ==
    /\ pc = "start"
    /\ big' = from_unsigned_bytes_le(bytes)
    /\ pc' = "big"
    /\ UNCHANGED <<bytes, word, res, op, intIdle>>

CallFromSignedBytesLe ==
    /\ pc = "start"
    /\ big' = from_signed_bytes_le(bytes)
    /\ pc' = "big"
    /\ UNCHANGED <<bytes, word, res, op, intIdle>>

\* BigInt::from(U64): the slice is the value of the U64
CallFromU64 ==
    /\ pc = "start" /\ Len(bytes) = U64Bytes
    /\ big' = from_u64(bytes)
    /\ pc' = "big"
    /\ op' = "from_u64"
    /\ UNCHANGED <<bytes, word, res, intIdle>>

\* u64::try_from(&big)
CallTryFrom ==
    /\ pc = "big"
    /\ res' = try_from(big)
    /\ pc' = "u64"
    /\ UNCHANGED <<bytes, big, word, op, intIdle>>

CallToSignedU256 ==
    /\ pc = "big"
    /\ op' = "to_signed_u256"
    /\ word' = IF to_signed_u256(big).ok THEN to_signed_u256(big).val ELSE None
    /\ pc' = IF to_signed_u256(big).ok THEN "signed" ELSE "panic"
    /\ UNCHANGED <<bytes, big, res, intIdle>>

CallToUnsignedU256 ==
    /\ pc = "big"
    /\ op' = "to_unsigned_u256"
    /\ word' = IF to_unsigned_u256(big).ok THEN to_unsigned_u256(big).val ELSE None
    /\ pc' = IF to_unsigned_u256(big).ok THEN "unsigned" ELSE "panic"
    /\ UNCHANGED <<bytes, big, res, intIdle>>

CallFromSignedU256 ==
    /\ pc = "signed"
    /\ res' = from_signed_u256(word)
    /\ pc' = "back"
    /\ UNCHANGED <<bytes, big, word, op, intIdle>>

CallFromUnsignedU256 ==
    /\ pc = "unsigned"
    /\ res' = from_unsigned_u256(word)
    /\ pc' = "back"
    /\ UNCHANGED <<bytes, big, word, op, intIdle>>

NextInt ==
    \/ CallFromUnsignedBytesLe \/ CallFromSignedBytesLe \/ CallFromU64
    \/ CallTryFrom
    \/ CallToSignedU256 \/ CallToUnsignedU256
    \/ CallFromSignedU256 \/ CallFromUnsignedU256

SpecInt == InitInt /\ [][NextInt]_vars

IsNegative(v) == v.sign = "Minus"

\* |v| < 2^(8 * n)
MagnitudeFits(v, n) == Len(v.data) <= n

\* |v| < 2^(8 * n - 1)
MagnitudeBelowTopBit(v, n) ==
    Len(v.data) < n \/ (Len(v.data) = n /\ v.data[n] < 128)

\* |v| = 2^(8 * n - 1)
MagnitudeIsTopBit(v, n) ==
    /\ Len(v.data) = n /\ v.data[n] = 128
    /\ \A i \in 1..(n - 1) : v.data[i] = 0

\* -2^255 <= v <= 2^255 - 1
InSignedRange(v) ==
    \/ MagnitudeBelowTopBit(v, U256Bytes)
    \/ IsNegative(v) /\ MagnitudeIsTopBit(v, U256Bytes)

\* 0 <= v <= 2^256 - 1
InUnsignedRange(v) == ~IsNegative(v) /\ MagnitudeFits(v, U256Bytes)

\* C6: u64::try_from(v) is the failure Negative when v < 0, the failure Overflow
\* when v >= 2^64, and otherwise succeeds with exactly v; a BigInt made from a
\* U64 n converts back to n.
C6_TryFromU64 ==
    pc = "u64" =>
        /\ IsNegative(big) => res = [ok |-> FALSE, err |-> "Negative"]
        /\ (~IsNegative(big) /\ ~MagnitudeFits(big, U64Bytes)) =>
              res = [ok |-> FALSE, err |-> "Overflow"]
        /\ (~IsNegative(big) /\ MagnitudeFits(big, U64Bytes)) =>
              /\ res.ok /\ Len(res.val) = U64Bytes
              /\ trim_zeros(res.val) = big.data
        /\ op = "from_u64" => res = Ok(bytes)

\* a U64 of eight significant bytes went to BigInt and back
C6_Witness ==
    /\ pc = "u64" /\ op = "from_u64" /\ bytes[U64Bytes] = 255 /\ res = Ok(bytes)

\* the sum of two little-endian words is 2^(8 * Len): every byte of the sum is
\* zero and a carry leaves the top
RECURSIVE SumIsPowerFrom(_, _, _, _)
SumIsPowerFrom(a, b, i, carry) ==
    IF i > Len(a) THEN carry = 1
    ELSE /\ (a[i] + b[i] + carry) % 256 = 0
         /\ SumIsPowerFrom(a, b, i + 1, (a[i] + b[i] + carry) \div 256)

\* C7: from_signed_u256(to_signed_u256(v)) = v for -2^255 <= v <= 2^255 - 1, a
\* negative v being projected to the 32 bytes of 2^256 - |v|, and
\* from_unsigned_u256(to_unsigned_u256(v)) = v for 0 <= v <= 2^256 - 1.
C7_RoundTrip256 ==
    /\ (op = "to_signed_u256" /\ InSignedRange(big)) =>
          /\ pc \in {"signed", "back"}
          /\ Len(word) = U256Bytes
          /\ IsNegative(big) =>
                SumIsPowerFrom(word, copy_into(U256Bytes, 0, big.data), 1, 0)
          /\ pc = "back" => res = big
    /\ (op = "to_unsigned_u256" /\ InUnsignedRange(big)) =>
          /\ pc \in {"unsigned", "back"}
          /\ Len(word) = U256Bytes
          /\ pc = "back" => res = big

\* -2^255 went to a U256 and back
C7_Witness ==
    /\ pc = "back" /\ op = "to_signed_u256"
    /\ IsNegative(big) /\ MagnitudeIsTopBit(big, U256Bytes)
    /\ word[1] = 0 /\ word[U256Bytes] = 128 /\ res = big

\* C8: to_signed_u256 panics for every BigInt outside -2^255 .. 2^255 - 1, below
\* and above, and to_unsigned_u256 panics for every negative BigInt; no value and
\* no recoverable result comes back.
C8_OutOfRangePanics ==
    /\ (op = "to_signed_u256" /\ ~InSignedRange(big)) => (pc = "panic" /\ word = None)
    /\ (op = "to_unsigned_u256" /\ IsNegative(big)) => (pc = "panic" /\ word = None)

\* 2^255, one past the largest signed value, was refused
C8_Witness ==
    /\ pc = "panic" /\ op = "to_signed_u256"
    /\ ~IsNegative(big) /\ MagnitudeIsTopBit(big, U256Bytes)

(* ----------------------------- division (SpecDiv) --------------------- *)
(* Two operands are drawn, made BigDecimals or BigInts, and divided.       *)

\* the magnitude's bytes, least significant first
RECURSIVE bytes_of(_)
bytes_of(n) == IF n = 0 THEN <<>> ELSE <<n % 256>> \o bytes_of(n \div 256)

\* impl From<i32 / i64 / u64> for BigInt
bigint_from(i) ==
    from_biguint(IF i < 0 THEN "Minus" ELSE IF i = 0 THEN "NoSign" ELSE "Plus",
                 bytes_of(Abs(i)))

\* the integer a BigInt stands for
RECURSIVE magnitude_value(_)
magnitude_value(data) ==
    IF data = <<>> THEN 0 ELSE data[1] + 256 * magnitude_value(Tail(data))

int_value(v) == IF v.sign = "Minus" THEN -magnitude_value(v.data) ELSE magnitude_value(v.data)

\* num_bigint Div: the quotient is truncated toward zero
num_div(a, b) ==
    LET q == Abs(int_value(a)) \div Abs(int_value(b))
    IN  bigint_from(IF (int_value(a) < 0) = (int_value(b) < 0) THEN q ELSE -q)

\* a slip: the quotient is rounded down
int_div_floor(self, other) ==
    IF other = bigint_from(0) THEN Panic
    ELSE Ok(bigint_from(int_value(self) \div int_value(other)))

\* impl Div for BigInt
int_div(self, other) ==
    IF other = bigint_from(0) THEN Panic
    ELSE Ok(num_div(self, other))

DivOperands == [digits : -MaxDivDigits..MaxDivDigits, exp : -MaxDivExp..MaxDivExp]

InitDiv ==
    /\ pc = "start"
    /\ arg \in [self : DivOperands, other : DivOperands]
    /\ x = None /\ y = None /\ res = None /\ op = "none"
    /\ big = None /\ bytes = None /\ word = None /\ feeds = None

divIdle == <<big, bytes, word, feeds>>

BuildBigDecimals ==
    /\ pc = "start"
    /\ x' = new(arg.self.digits, arg.self.exp)
    /\ y' = new(arg.other.digits, arg.other.exp)
    /\ pc' = "operands"
    /\ op' = "BigDecimal"
    /\ UNCHANGED <<arg, res, divIdle>>

BuildBigInts ==
    /\ pc = "start" /\ arg.self.exp = 0 /\ arg.other.exp = 0
    /\ x' = bigint_from(arg.self.digits)
    /\ y' = bigint_from(arg.other.digits)
    /\ pc' = "operands"
    /\ op' = "BigInt"
    /\ UNCHANGED <<arg, res, divIdle>>

CallDiv ==
    /\ pc = "operands" /\ op = "BigDecimal"
    /\ res' = div(x, y)
    /\ pc' = IF div(x, y).ok THEN "done" ELSE "panic"
    /\ UNCHANGED <<arg, x, y, op, divIdle>>

CallIntDiv ==
    /\ pc = "operands" /\ op = "BigInt"
    /\ res' = int_div(x, y)
    /\ pc' = IF int_div(x, y).ok THEN "done" ELSE "panic"
    /\ UNCHANGED <<arg, x, y, op, divIdle>>

NextDiv == BuildBigDecimals \/ BuildBigInts \/ CallDiv \/ CallIntDiv

SpecDiv == InitDiv /\ [][NextDiv]_vars

\* q is a / b truncated toward zero: the remainder is smaller than b and has the
\* sign of a
IsTruncatedQuotient(q, a, b) ==
    /\ Abs(a - q * b) < Abs(b)
    /\ a - q * b # 0 => ((a - q * b < 0) = (a < 0))

\* C9: dividing a BigInt by the zero BigInt, or a BigDecimal by a zero-valued
\* BigDecimal, panics and yields no value and no recoverable error; for every
\* other divisor the division returns a value, for BigInt the quotient truncated
\* toward zero.
C9_DivisionByZeroPanics ==
    pc \in {"done", "panic"} =>
        /\ (pc = "panic") = (arg.other.digits = 0)
        /\ pc = "panic" => res = Panic
        /\ pc = "done" => res.ok
        /\ (pc = "done" /\ op = "BigInt") =>
              IsTruncatedQuotient(int_value(res.val), arg.self.digits, arg.other.digits)

\* 3 was divided by a zero written as 0 * 10^1
C9_Witness ==
    /\ pc = "panic" /\ op = "BigDecimal"
    /\ arg.self.digits = 3 /\ arg.other.digits = 0 /\ arg.other.exp = 1
    /\ y = zero /\ res = Panic

(* --------------------------- stable hash (SpecHash) -------------------- *)
(* What a value feeds the hasher: the writes, in order, each with the path *)
(* of the sequence number it is written under.  A sequence number is its   *)
(* path from the root and the count of children handed out so far.         *)

root == [path |-> <<>>, child |-> 0]

\* SequenceNumber::next_child: the child, and the parent after the call
next_child(seq) ==
    <<[path |-> Append(seq.path, seq.child), child |-> 0],
      [seq EXCEPT !.child = @ + 1]>>

\* StableHasher::write
write(state, seq, b) == Append(state, [seq |-> seq.path, bytes |-> b])

\* impl StableHash for bool: only true is written
bool_stable_hash(v, seq, state) == IF v THEN write(state, seq, <<>>) ELSE state

\* impl StableHash for AsInt: the flag under a child, the trimmed bytes under
\* the number itself
as_int_stable_hash(is_negative, little_endian, seq, state) ==
    LET c     == next_child(seq)
        s1    == bool_stable_hash(is_negative, c[1], state)
        canon == trim_zeros(little_endian)
    IN  IF canon # <<>> THEN write(s1, c[2], canon) ELSE s1

\* a slip: the sign is not fed
big_int_stable_hash_unsigned(int, seq, state) ==
    as_int_stable_hash(FALSE, to_bytes_le(int)[2], seq, state)

\* big_int_stable_hash
big_int_stable_hash(int, seq, state) ==
    as_int_stable_hash(int.sign = "Minus", to_bytes_le(int)[2], seq, state)

\* impl StableHash for BigInt
bigint_stable_hash(v, seq, state) == big_int_stable_hash(v, seq, state)

\* impl StableHash for i64 and for the plain integers of the tests
int_stable_hash(n, seq, state) ==
    as_int_stable_hash(n < 0, copy_into(U64Bytes, 0, bytes_of(Abs(n))), seq, state)

\* impl StableHash for BigDecimal: the exponent under the first child, then
\* the mantissa
decimal_stable_hash(d, seq, state) ==
    LET p   == as_bigint_and_exponent(d)
        c   == next_child(seq)
        s1  == int_stable_hash(p[2], c[1], state)
    IN  big_int_stable_hash(bigint_from(p[1]), c[2], s1)

HashInts == 0..MaxHashInt \cup {1048576, 2097152}

RECURSIVE Slices(_)
Slices(n) ==
    IF n = 0 THEN {<<>>}
    ELSE Slices(n - 1) \cup {Append(s, b) : s \in Slices(n - 1), b \in ByteVals}

HashDigits == -MaxHashDigits..MaxHashDigits \cup {-256, 256, 2560}

HashPairs == [digits : HashDigits, exp : -MaxHashExp..MaxHashExp]

InitHash ==
    /\ pc = "start"
    /\ \/ op = "uint" /\ arg \in HashInts
       \/ op \in {"unsigned", "signed"} /\ arg \in Slices(MaxHashBytes) \X Slices(MaxHashBytes)
       \/ op = "decimal" /\ arg \in HashPairs \X HashPairs
    /\ x = None /\ y = None /\ res = None /\ feeds = None
    /\ big = None /\ bytes = None /\ word = None

hashIdle == <<res, bytes, word>>

\* BigDecimal::from(n), n a native unsigned integer
BuildFromUint ==
    /\ pc = "start" /\ op = "uint"
    /\ x' = from_int(arg)
    /\ pc' = "built"
    /\ UNCHANGED <<y, big, op, arg, feeds, hashIdle>>

BuildFromUnsignedBytes ==
    /\ pc = "start" /\ op = "unsigned"
    /\ big' = <<from_unsigned_bytes_le(arg[1]), from_unsigned_bytes_le(arg[2])>>
    /\ pc' = "built"
    /\ UNCHANGED <<x, y, op, arg, feeds, hashIdle>>

BuildFromSignedBytes ==
    /\ pc = "start" /\ op = "signed"
    /\ big' = <<from_signed_bytes_le(arg[1]), from_signed_bytes_le(arg[2])>>
    /\ pc' = "built"
    /\ UNCHANGED <<x, y, op, arg, feeds, hashIdle>>

BuildDecimals ==
    /\ pc = "start" /\ op = "decimal"
    /\ x' = new(arg[1].digits, arg[1].exp)
    /\ y' = new(arg[2].digits, arg[2].exp)
    /\ pc' = "built"
    /\ UNCHANGED <<big, op, arg, feeds, hashIdle>>

\* the integer n and the BigDecimal made from it are hashed
HashUint ==
    /\ pc = "built" /\ op = "uint"
    /\ feeds' = <<int_stable_hash(arg, root, <<>>), decimal_stable_hash(x, root, <<>>)>>
    /\ pc' = "hashed"
    /\ UNCHANGED <<x, y, big, op, arg, hashIdle>>

HashBigInts ==
    /\ pc = "built" /\ op \in {"unsigned", "signed"}
    /\ feeds' = <<bigint_stable_hash(big[1], root, <<>>), bigint_stable_hash(big[2], root, <<>>)>>
    /\ pc' = "hashed"
    /\ UNCHANGED <<x, y, big, op, arg, hashIdle>>

HashDecimals ==
    /\ pc = "built" /\ op = "decimal"
    /\ feeds' = <<decimal_stable_hash(x, root, <<>>), decimal_stable_hash(y, root, <<>>)>>
    /\ pc' = "hashed"
    /\ UNCHANGED <<x, y, big, op, arg, hashIdle>>

NextHash ==
    \/ BuildFromUint \/ BuildFromUnsignedBytes \/ BuildFromSignedBytes \/ BuildDecimals
    \/ HashUint \/ HashBigInts \/ HashDecimals

SpecHash == InitHash /\ [][NextHash]_vars

\* C4 as claimed: for every non-negative integer n, the BigDecimal made from n
\* feeds the hasher what the integer n feeds it.
C4_DecimalHashesAsUint == (pc = "hashed" /\ op = "uint") => feeds[1] = feeds[2]

\* the integer a slice stands for, read as a magnitude
UnsignedValue(b) == magnitude_value(b)

\* the integer a slice stands for, read as two's complement
RECURSIVE power_of_256(_)
power_of_256(n) == IF n = 0 THEN 1 ELSE 256 * power_of_256(n - 1)

SignedValue(b) ==
    IF b # <<>> /\ b[Len(b)] > 127 THEN magnitude_value(b) - power_of_256(Len(b))
    ELSE magnitude_value(b)

\* C5: two BigInts, and two BigDecimals, feed the hasher the same writes exactly
\* when they have the same value: slices that differ in zero or sign-extension
\* padding feed alike, values that differ feed differently.
C5_FeedIffSameValue ==
    pc = "hashed" =>
        /\ op = "unsigned" =>
              (feeds[1] = feeds[2]) = (UnsignedValue(arg[1]) = UnsignedValue(arg[2]))
        /\ op = "signed" =>
              (feeds[1] = feeds[2]) = (SignedValue(arg[1]) = SignedValue(arg[2]))
        /\ op = "decimal" =>
              (feeds[1] = feeds[2]) =
                  SameValue(arg[1].digits, arg[1].exp, arg[2].digits, arg[2].exp)

\* -1 as one byte and as two sign-extended bytes fed the same writes
C5_Witness ==
    /\ pc = "hashed" /\ op = "signed"
    /\ arg = <<<<255>>, <<255, 255>>>>
    /\ feeds[1] = feeds[2]
    /\ feeds[1] = <<[seq |-> <<0>>, bytes |-> <<>>], [seq |-> <<>>, bytes |-> <<1>>]>>

(* ------------------------------ Bytes (SpecBytes) ---------------------- *)
(* A text is parsed into a Bytes, or a byte slice is made into a Bytes,   *)
(* shown as text and parsed back.                                          *)

HEX_CHARS_LOWER ==
    <<"0", "1", "2", "3", "4", "5", "6", "7", "8", "9", "a", "b", "c", "d", "e", "f">>

HEX_CHARS_UPPER ==
    <<"0", "1", "2", "3", "4", "5", "6", "7", "8", "9", "A", "B", "C", "D", "E", "F">>

\* impl From<&[u8]> for Bytes: the slice is copied into the box
from_slice(array) == array

\* Bytes::as_slice
as_slice(b) == b

\* a slip: a byte is written without its leading zero digit
hex_encode_unpadded(data) ==
    IF data = <<>> THEN <<>>
    ELSE LET first == IF data[1] < 16
                      THEN <<HEX_CHARS_LOWER[data[1] + 1]>>
                      ELSE <<HEX_CHARS_LOWER[(data[1] \div 16) + 1],
                             HEX_CHARS_LOWER[(data[1] % 16) + 1]>>
         IN  first \o [i \in 1..(2 * (Len(data) - 1)) |->
                 IF i % 2 = 1 THEN HEX_CHARS_LOWER[(Tail(data)[(i + 1) \div 2] \div 16) + 1]
                 ELSE HEX_CHARS_LOWER[(Tail(data)[i \div 2] % 16) + 1]]

\* hex::encode: two lowercase digits per byte, the high nibble first
hex_encode(data) ==
    [i \in 1..(2 * Len(data)) |->
        IF i % 2 = 1 THEN HEX_CHARS_LOWER[(data[(i + 1) \div 2] \div 16) + 1]
        ELSE HEX_CHARS_LOWER[(data[i \div 2] % 16) + 1]]

\* impl Display for Bytes: write!(f, "0x{}", hex::encode(&self.0))
bytes_to_string(b) == <<"0", "x">> \o hex_encode(as_slice(b))

\* str::trim_start_matches("0x"): the pattern is removed as long as the text
\* starts with it
RECURSIVE trim_start_matches(_)
trim_start_matches(s) ==
    IF Len(s) >= 2 /\ s[1] = "0" /\ s[2] = "x"
    THEN trim_start_matches(SubSeq(s, 3, Len(s)))
    ELSE s

\* hex's val: the value of a digit in either case, -1 for any other character
val(c) ==
    IF \E i \in 1..16 : HEX_CHARS_LOWER[i] = c
    THEN (CHOOSE i \in 1..16 : HEX_CHARS_LOWER[i] = c) - 1
    ELSE IF \E i \in 11..16 : HEX_CHARS_UPPER[i] = c
    THEN (CHOOSE i \in 11..16 : HEX_CHARS_UPPER[i] = c) - 1
    ELSE -1

FromHexError(kind) == [ok |-> FALSE, err |-> kind]

\* hex::decode: an odd length is refused first, then each pair is read
hex_decode(data) ==
    IF Len(data) % 2 # 0 THEN FromHexError("OddLength")
    ELSE IF \E i \in 1..Len(data) : val(data[i]) < 0
    THEN FromHexError("InvalidHexCharacter")
    ELSE Ok([i \in 1..(Len(data) \div 2) |-> val(data[2 * i - 1]) * 16 + val(data[2 * i])])

\* impl FromStr for Bytes
bytes_from_str(s) ==
    LET decoded == hex_decode(trim_start_matches(s))
    IN  IF decoded.ok THEN Ok(from_slice(decoded.val)) ELSE decoded

HexAlphabet == {"0", "x", "X", "a", "A", "g"}

\* the texts of the documentation besides the enumerated ones
HexExamples == {<<"0", "x", "1", "a", "2", "b">>, <<"1", "A", "2", "B">>}

HexTexts ==
    UNION {[1..n -> HexAlphabet] : n \in 0..MaxHexLen} \cup HexExamples

BlobBytes == {0, 10, 26, 43, 171, 255}

Blobs == UNION {[1..n -> BlobBytes] : n \in 0..MaxBlobLen}

InitBytes ==
    /\ pc = "start"
    /\ \/ op = "text" /\ arg \in HexTexts
       \/ op = "slice" /\ arg \in Blobs
    /\ bytes = None /\ res = None /\ word = None
    /\ x = None /\ y = None /\ big = None /\ feeds = None

bytesIdle == <<x, y, big, feeds>>

\* Bytes::from_str(text)
ParseText ==
    /\ pc = "start" /\ op = "text"
    /\ word' = bytes_from_str(arg)
    /\ pc' = "parsed"
    /\ UNCHANGED <<op, arg, bytes, res, bytesIdle>>

\* Bytes::from(slice)
FromSlice ==
    /\ pc = "start" /\ op = "slice"
    /\ bytes' = from_slice(arg)
    /\ pc' = "blob"
    /\ UNCHANGED <<op, arg, res, word, bytesIdle>>

\* bytes.to_string()
ShowBytes ==
    /\ pc = "blob"
    /\ res' = bytes_to_string(bytes)
    /\ pc' = "shown"
    /\ UNCHANGED <<op, arg, bytes, word, bytesIdle>>

\* Bytes::from_str(&bytes.to_string())
ParseShown ==
    /\ pc = "shown"
    /\ word' = bytes_from_str(res)
    /\ pc' = "reparsed"
    /\ UNCHANGED <<op, arg, bytes, res, bytesIdle>>

NextBytes == ParseText \/ FromSlice \/ ShowBytes \/ ParseShown

SpecBytes == InitBytes /\ [][NextBytes]_vars

\* a text without one leading "0x", the prefix taken in either case
WithoutOnePrefix(s) ==
    IF Len(s) >= 2 /\ s[1] = "0" /\ s[2] \in {"x", "X"} THEN SubSeq(s, 3, Len(s)) ELSE s

HexDigitChars ==
    {"0", "1", "2", "3", "4", "5", "6", "7", "8", "9",
     "a", "b", "c", "d", "e", "f", "A", "B", "C", "D", "E", "F"}

\* an even number of hex digits
IsHexPayload(s) == Len(s) % 2 = 0 /\ \A i \in 1..Len(s) : s[i] \in HexDigitChars

NibbleOf(c) ==
    CHOOSE n \in 0..15 : HEX_CHARS_LOWER[n + 1] = c \/ HEX_CHARS_UPPER[n + 1] = c

\* the bytes a hex payload denotes
PayloadBytes(s) ==
    [i \in 1..(Len(s) \div 2) |-> 16 * NibbleOf(s[2 * i - 1]) + NibbleOf(s[2 * i])]

\* C11: parsing removes one optional leading "0x", matched in either case; when
\* what remains is an even number of hex digits (either case) the result is the
\* bytes of that payload, the same with or without the prefix, and when it holds
\* a non-hex character or has odd length the result is the malformed-hex failure.
C11_ParseOptionalPrefix ==
    pc = "parsed" =>
        IF IsHexPayload(WithoutOnePrefix(arg))
        THEN word = Ok(PayloadBytes(WithoutOnePrefix(arg)))
        ELSE ~word.ok

\* C12: the text of Bytes(b) is "0x" and then two lowercase hex digits per byte,
\* and parsing that text gives back Bytes(b).
C12_HexRoundTrip ==
    /\ pc \in {"shown", "reparsed"} =>
          /\ Len(res) = 2 + 2 * Len(arg)
          /\ res[1] = "0" /\ res[2] = "x"
          /\ \A i \in 1..Len(arg) :
                /\ res[2 * i + 1] = HEX_CHARS_LOWER[(arg[i] \div 16) + 1]
                /\ res[2 * i + 2] = HEX_CHARS_LOWER[(arg[i] % 16) + 1]
    /\ pc = "reparsed" => word.ok /\ word.val = from_slice(arg)

\* the bytes 0x0a, 0xab are shown as "0x0aab" and read back
C12_Witness ==
    /\ pc = "reparsed"
    /\ arg = <<10, 171>>
    /\ res = <<"0", "x", "0", "a", "a", "b">>
    /\ word = Ok(<<10, 171>>)

====
